---- MODULE Spec2Model ----
(***************************************************************************)
(* Model of scripts/validate-feed.ts: the validation run over a parsed     *)
(* RSS podcast feed (checkRSSFormat, checkChannel, checkEpisodes, main),   *)
(* the field checkers it applies, and handleError, which prints each       *)
(* violation and sets the exit code.                                       *)
(*                                                                         *)
(* JavaScript values are records tagged with their kind; a string is the   *)
(* sequence of its characters, so that slice, indexOf, startsWith, length  *)
(* and the regular expressions are computed as the code computes them.     *)
(***************************************************************************)
EXTENDS Integers, Sequences, FiniteSets, TLC

VARIABLES
    args,       \* parser.parseArgs(): [strict]
    env,        \* process.env: [CI, NODE_ENV, PUBLIC_URL_BASE]
    net,        \* what rq.head answers, per URL
    feed,       \* the parsed document
    pc,         \* position of main(): [fn, phase, item, idx]
    exitCode,   \* let exitCode
    console,    \* the console.error / console.warn calls so far, in order
    probes,     \* the URLs rq.head was called with, in order
    guids,      \* checkEpisodes: let guids
    episodes,   \* checkEpisodes: let episodes
    status,     \* the code process.exit was called with, or NoStatus
    call,       \* a checker applied on its own: [validate, value]
    ret         \* its outcome

vars == <<args, env, net, feed, pc, exitCode, console, probes, guids, episodes, status, call, ret>>

-----------------------------------------------------------------------------
(* JavaScript values *)

Undefined == [t |-> "undefined"]
Null == [t |-> "null"]
NaN == [t |-> "number", nan |-> TRUE]
Bool(b) == [t |-> "boolean", b |-> b]
Num(n) == [t |-> "number", nan |-> FALSE, n |-> n]
Str(s) == [t |-> "string", s |-> s]
Obj(o) == [t |-> "object", o |-> o]
Arr(a) == [t |-> "array", a |-> a]

TypeOf(v) == IF v.t \in {"null", "array"} THEN "object" ELSE v.t

Truthy(v) ==
    CASE v.t \in {"undefined", "null"} -> FALSE
      [] v.t = "boolean" -> v.b
      [] v.t = "number" -> ~v.nan /\ v.n # 0
      [] v.t = "string" -> Len(v.s) > 0
      [] OTHER -> TRUE

Min(a, b) == IF a < b THEN a ELSE b
Max(a, b) == IF a > b THEN a ELSE b

\* String.prototype.slice(from, to) on a character sequence
SliceIndex(len, i) == IF i < 0 THEN Max(len + i, 0) ELSE Min(i, len)
Slice(s, from, to) == SubSeq(s, SliceIndex(Len(s), from) + 1, SliceIndex(Len(s), to))
SliceFrom(s, from) == SubSeq(s, SliceIndex(Len(s), from) + 1, Len(s))

\* String.prototype.indexOf(pat): the lowest 0-based position, or -1
IndexOf(s, pat) ==
    LET hits == {i \in 0..(Len(s) - Len(pat)) : SubSeq(s, i + 1, i + Len(pat)) = pat}
    IN IF hits = {} THEN -1 ELSE CHOOSE i \in hits : \A j \in hits : i <= j

\* String.prototype.startsWith(search); the search argument is converted to a string
ToStringArg(v) == IF v.t = "undefined" THEN <<"u","n","d","e","f","i","n","e","d">> ELSE v.s
StartsWith(s, p) == Len(p) <= Len(s) /\ SubSeq(s, 1, Len(p)) = p
EndsWith(s, p) == Len(p) <= Len(s) /\ SubSeq(s, Len(s) - Len(p) + 1, Len(s)) = p

Digits == {"0", "1", "2", "3", "4", "5", "6", "7", "8", "9"}
Lower == {"a", "b", "c", "d", "e", "f", "g", "h", "i", "j", "k", "l", "m",
          "n", "o", "p", "q", "r", "s", "t", "u", "v", "w", "x", "y", "z"}
Upper == {"A", "B", "C", "D", "E", "F", "G", "H", "I", "J", "K", "L", "M",
          "N", "O", "P", "Q", "R", "S", "T", "U", "V", "W", "X", "Y", "Z"}
DigitVal(c) ==
    CASE c = "0" -> 0 [] c = "1" -> 1 [] c = "2" -> 2 [] c = "3" -> 3 [] c = "4" -> 4
      [] c = "5" -> 5 [] c = "6" -> 6 [] c = "7" -> 7 [] c = "8" -> 8 [] c = "9" -> 9

RECURSIVE DigitsPrefix(_)
DigitsPrefix(s) ==
    IF s = <<>> \/ Head(s) \notin Digits THEN <<>> ELSE <<Head(s)>> \o DigitsPrefix(Tail(s))

RECURSIVE ToNat(_, _)
ToNat(ds, acc) == IF ds = <<>> THEN acc ELSE ToNat(Tail(ds), 10 * acc + DigitVal(Head(ds)))

RECURSIVE TrimLeft(_)
TrimLeft(s) == IF s # <<>> /\ Head(s) = " " THEN TrimLeft(Tail(s)) ELSE s

\* parseInt(s, 10)
ParseInt(s) ==
    LET t == TrimLeft(s)
        signed == t # <<>> /\ Head(t) \in {"+", "-"}
        ds == DigitsPrefix(IF signed THEN Tail(t) ELSE t)
    IN IF ds = <<>> THEN NaN
       ELSE IF signed /\ Head(t) = "-" THEN Num(0 - ToNat(ds, 0)) ELSE Num(ToNat(ds, 0))

\* Number(string), as the == operator applies it
ToNumber(v) ==
    CASE v.t = "boolean" -> Num(IF v.b THEN 1 ELSE 0)
      [] v.t = "number" -> v
      [] v.t = "null" -> Num(0)
      [] v.t = "string" ->
            IF v.s = <<>> THEN Num(0)
            ELSE IF \A i \in 1..Len(v.s) : v.s[i] \in Digits THEN Num(ToNat(v.s, 0))
            ELSE IF \E k \in 2..Len(v.s) :
                        /\ v.s[k] = "."
                        /\ \A i \in 1..(k - 1) : v.s[i] \in Digits
                        /\ \A i \in (k + 1)..Len(v.s) : v.s[i] = "0"
                 THEN Num(ToNat(DigitsPrefix(v.s), 0))
            ELSE NaN
      [] OTHER -> NaN

\* a == b, which assert.equal and assert.notEqual use
LooseEquals(a, b) ==
    CASE a.t \in {"undefined", "null"} \/ b.t \in {"undefined", "null"} ->
            a.t \in {"undefined", "null"} /\ b.t \in {"undefined", "null"}
      [] a.t = b.t /\ a.t # "number" -> a = b
      [] a.t \in {"object", "array"} \/ b.t \in {"object", "array"} -> FALSE
      [] OTHER -> LET x == ToNumber(a)
                      y == ToNumber(b)
                  IN ~x.nan /\ ~y.nan /\ x.n = y.n

-----------------------------------------------------------------------------
(* Field checkers.  Each returns the message of the assertion that fails,  *)
(* or Pass when none does.                                                 *)

Pass == ""

MaxDefaultLen == 255
MaxDescriptionLen == 4000
MsgTooLong == <<" ","m","u","s","t"," ","n","o","t"," ","h","a","v","e"," ","m","o","r","e"," ","t","h","a","n"," ","2","5","5"," ","c","h","a","r","a","c","t","e","r","s",".">>

checkDefaultString(s) ==
    IF TypeOf(s) # "string" THEN "must be a string."
    ELSE IF StartsWith(s.s, <<" ">>) THEN "must not start with leading space."
    ELSE IF EndsWith(s.s, <<" ">>) THEN "must not start with trailing space."
    ELSE IF ~(Len(s.s) > 0) THEN "is an empty string."
    \* assert.notEqual(s.length > 255, message): the message is the second operand
    ELSE IF LooseEquals(Bool(Len(s.s) > MaxDefaultLen), Str(MsgTooLong))
         THEN "Expected values to be loosely not equal"
    ELSE Pass

checkNatural(s) ==
    IF TypeOf(s) # "number" THEN "must be a number."
    ELSE IF ~(~s.nan /\ s.n > 0) THEN "must be a positive number."
    ELSE Pass

checkNumberString(s) ==
    IF TypeOf(s) # "string" THEN "must be a string."
    ELSE IF ParseInt(s.s).nan THEN "is not a valid number string."
    ELSE IF ~(ParseInt(s.s).n >= 0) THEN "must be a positive number or zero."
    ELSE Pass

checkDescriptionString(s) ==
    IF TypeOf(s) # "string" THEN "must be a string."
    ELSE IF StartsWith(s.s, <<" ">>) THEN "must not start with leading space."
    ELSE IF EndsWith(s.s, <<" ">>) THEN "must not start with trailing space."
    ELSE IF ~(Len(s.s) > 0) THEN "is an empty string."
    ELSE IF LooseEquals(Bool(Len(s.s) > MaxDescriptionLen), Str(MsgTooLong))
         THEN "Expected values to be loosely not equal"
    ELSE Pass

CDATA_OPEN == <<"<","!","[","C","D","A","T","A","[">>
CDATA_CLOSE == <<"]","]",">">>

checkCDATAString(s) ==
    IF TypeOf(s) # "string" THEN "must be a string."
    ELSE IF ~(Len(s.s) > 0) THEN "is an empty string."
    ELSE IF Slice(s.s, 0, 9) # CDATA_OPEN THEN "must start with '<![CDATA[' if it's CDATA."
    ELSE IF Slice(s.s, 9, -3) # CDATA_CLOSE THEN "must end with ']]>' if it's CDATA."
    ELSE IF IndexOf(Slice(s.s, 9, -3), CDATA_CLOSE) # -1 THEN "must not include ']]>' in it's content."
    ELSE Pass

\* moment(s, DATE_FORMATS, true).isValid(), on the dates the documents use
StrictDates == {<<"M","o","n",","," ","0","2"," ","J","a","n"," ","2","0","2","3"," ","1","5",":","0","4",":","0","5"," ","+","0","0","0","0">>, <<"M","o","n",","," ","0","2"," ","J","a","n"," ","2","3"," ","1","5",":","0","4",":","0","5"," ","+","0","0","0","0">>}

checkDate(s) ==
    IF TypeOf(s) # "string" THEN "must be a string."
    ELSE IF ~(Len(s.s) > 0) THEN "is an empty string."
    ELSE IF s.s \notin StrictDates THEN "is not properly formatted date."
    ELSE Pass

\* the iso6391 column of the iso-639-2 package, in part
ISO_CODES == {<<"e","n">>, <<"d","e">>, <<"f","r">>}

\* /^[a-z]{2}(|-[a-zA-Z]{2})$/
MatchesLanguage(s) ==
    /\ Len(s) \in {2, 5}
    /\ s[1] \in Lower /\ s[2] \in Lower
    /\ Len(s) = 5 => s[3] = "-" /\ s[4] \in Lower \cup Upper /\ s[5] \in Lower \cup Upper

checkLanguage(s) ==
    IF TypeOf(s) # "string" THEN "must be a string."
    ELSE IF ~(Len(s.s) > 0) THEN "is an empty string."
    ELSE IF ~MatchesLanguage(s.s) THEN "has not the proper format of a language code."
    ELSE IF Slice(s.s, 0, 2) \notin ISO_CODES THEN "does not start with a valid language code."
    ELSE Pass

HTTPS == <<"h","t","t","p","s",":","/","/">>

checkUrlFormat(s, expectedExtensions) ==
    IF TypeOf(s) # "string" THEN "must be a string."
    ELSE IF ~(Len(s.s) > 0) THEN "is an empty string."
    ELSE IF Slice(s.s, 0, 8) # HTTPS THEN "must start with 'https://'."
    ELSE IF expectedExtensions # {} /\ ~\E e \in expectedExtensions : EndsWith(s.s, e)
         THEN "must end with one of the extensions"
    ELSE Pass

\* what rq.head(s) does: resolve with a response, or reject with an error
Response(st, ranges, ctype) == [resolved |-> TRUE, status |-> st, acceptRanges |-> ranges, contentType |-> ctype]
Rejection(st) == [resolved |-> FALSE, status |-> st]
rqHead(url) == IF url \in DOMAIN net THEN net[url] ELSE Rejection(Undefined)

\* lines 142-153: the assertions on the response; an assertion that fails inside the
\* try block is caught too, and an AssertionError carries no status
ProbeOutcome(r, expectedContentTypes) ==
    IF r.resolved
        /\ r.status = 200
        /\ r.acceptRanges = "bytes"
        /\ (expectedContentTypes # {} => r.contentType \in expectedContentTypes)
    THEN Pass
    ELSE IF r.resolved THEN "responded with undefined when trying to connect."
    ELSE IF LooseEquals(r.status, Num(200)) THEN Pass
    ELSE "responded with an error status when trying to connect."

\* a variant of the special case that leaves out the test mode
SkipProbeOnBaseOnly(s, e) ==
    Truthy(e.CI) /\ StartsWith(s.s, ToStringArg(e.PUBLIC_URL_BASE))

\* line 137: the special case of a validation in the pipeline before deployment
SkipProbe(s, e) ==
    Truthy(e.CI) /\ (e.NODE_ENV = Str(<<"t","e","s","t">>) \/ StartsWith(s.s, ToStringArg(e.PUBLIC_URL_BASE)))

\* [err: the failing assertion or Pass, note: the console.warn of the skip,
\*  probe: whether rq.head was called]
checkUrlExists(s, expectedExtension, expectedContentTypes, e) ==
    IF checkUrlFormat(s, expectedExtension) # Pass
    THEN [err |-> checkUrlFormat(s, expectedExtension), note |-> FALSE, probe |-> FALSE]
    ELSE IF SkipProbe(s, e)
    THEN [err |-> Pass, note |-> TRUE, probe |-> FALSE]
    ELSE [err |-> ProbeOutcome(rqHead(s.s), expectedContentTypes), note |-> FALSE, probe |-> TRUE]

\* itunes-categories.json: category -> its subcategories
ITUNES_CATEGORIES == (<<"A","r","t","s">> :> {<<"B","o","o","k","s">>, <<"D","e","s","i","g","n">>}) @@ (<<"C","o","m","e","d","y">> :> {})

checkItunesCategory(cat, subcat) ==
    IF TypeOf(cat) # "string" THEN "Itunes category must be a string."
    ELSE IF cat.s \notin DOMAIN ITUNES_CATEGORIES THEN "Itunes category is not a valid itunes category."
    ELSE IF ~Truthy(subcat) THEN Pass
    ELSE IF TypeOf(subcat) # "string" THEN "Itunes subcategory must be a string."
    ELSE IF subcat.s \notin ITUNES_CATEGORIES[cat.s] THEN "Itunes subcategory is not valid."
    ELSE Pass

checkBool(s) == IF TypeOf(s) # "boolean" THEN "must be a boolean." ELSE Pass

\* EmailValidator.validate(s): one "@", a local part, and a dotted domain
ValidEmail(s) ==
    /\ s.t = "string"
    /\ Cardinality({i \in 1..Len(s.s) : s.s[i] = "@"}) = 1
    /\ LET at == IndexOf(s.s, <<"@">>) + 1
       IN /\ at > 1
          /\ \E d \in (at + 2)..(Len(s.s) - 1) : s.s[d] = "."
          /\ s.s[at + 1] # "."
    /\ \A i \in 1..Len(s.s) : s.s[i] # " "

checkEmail(s) == IF ~ValidEmail(s) THEN "is not a valid email address." ELSE Pass

checkItunesType(s) ==
    IF s \notin {Str(<<"s","e","r","i","a","l">>), Str(<<"e","p","i","s","o","d","i","c">>)} THEN "must be 'serial' or 'episodic'" ELSE Pass

checkEpisodeType(s) ==
    IF s \notin {Str(<<"f","u","l","l">>), Str(<<"t","r","a","i","l","e","r">>), Str(<<"b","o","n","u","s">>)}
    THEN "must be 'full', 'trailer' or 'bonus'." ELSE Pass

checkAudioType(s) ==
    IF s \notin {Str(<<"a","u","d","i","o","/","x","-","m","4","a">>), Str(<<"a","u","d","i","o","/","m","p","e","g">>)} THEN "valid audio type" ELSE Pass

\* a rule's checker, applied: validate(value, fieldName)
Rule(field, path, fn) == [field |-> field, path |-> path, fn |-> fn, ext |-> {}, ctypes |-> {}]
ImageRule(field, path) ==
    [field |-> field, path |-> path, fn |-> "checkUrlExists",
     ext |-> {<<"j","p","g">>, <<"j","p","e","g">>, <<"p","n","g">>}, ctypes |-> {"image/jpg", "image/jpeg", "image/png"}]
AudioRule(field, path) ==
    [field |-> field, path |-> path, fn |-> "checkUrlFormat", ext |-> {<<"m","p","3">>, <<"m","4","a">>}, ctypes |-> {}]

Sync(err) == [err |-> err, note |-> FALSE, probe |-> FALSE]

Validate(rule, value, e) ==
    CASE rule.fn = "checkDefaultString" -> Sync(checkDefaultString(value))
      [] rule.fn = "checkDescriptionString" -> Sync(checkDescriptionString(value))
      [] rule.fn = "checkCDATAString" -> Sync(checkCDATAString(value))
      [] rule.fn = "checkNatural" -> Sync(checkNatural(value))
      [] rule.fn = "checkNumberString" -> Sync(checkNumberString(value))
      [] rule.fn = "checkDate" -> Sync(checkDate(value))
      [] rule.fn = "checkLanguage" -> Sync(checkLanguage(value))
      [] rule.fn = "checkBool" -> Sync(checkBool(value))
      [] rule.fn = "checkEmail" -> Sync(checkEmail(value))
      [] rule.fn = "checkItunesType" -> Sync(checkItunesType(value))
      [] rule.fn = "checkEpisodeType" -> Sync(checkEpisodeType(value))
      [] rule.fn = "checkAudioType" -> Sync(checkAudioType(value))
      [] rule.fn = "checkUrlFormat" -> Sync(checkUrlFormat(value, rule.ext))
      [] rule.fn = "checkUrlExists" -> checkUrlExists(value, rule.ext, rule.ctypes, e)

-----------------------------------------------------------------------------
(* The parsed tree and its lookups *)

\* _.get(object, path, defaultValue): the default stands in for undefined only
RECURSIVE BaseGet(_, _)
BaseGet(v, path) ==
    IF path = <<>> THEN v
    ELSE IF v.t = "object" /\ Head(path) \in DOMAIN v.o THEN BaseGet(v.o[Head(path)], Tail(path))
    ELSE Undefined

Get(v, path, default) == IF BaseGet(v, path) = Undefined THEN default ELSE BaseGet(v, path)

\* Object.keys(value): the child names of an element, the indices of a string
Keys(v) ==
    CASE v.t = "object" -> DOMAIN v.o
      [] v.t = "string" -> {ToString(i) : i \in 0..(Len(v.s) - 1)}
      [] OTHER -> {}

EmptyObject == Obj([k \in {} |-> Undefined])

\* line 230
channel == Get(feed, <<"rss", "channel">>, EmptyObject)

-----------------------------------------------------------------------------
(* handleError and the output *)

NoStatus == -1

\* an error as it is thrown: where it arose and its message; `detail` holds the
\* tag names or the duplicated value the message ends with
Violation(section, item, field, msg, detail) ==
    [section |-> section, item |-> item, field |-> field, msg |-> msg, detail |-> detail]

\* a line of output: console.error or console.warn, of a violation of either
\* severity or of a note
Line(level, kind, err) == [level |-> level, kind |-> kind, err |-> err]
Severity(isStrict) == IF isStrict THEN "strict-only" ELSE "always-fatal"

\* a variant that fails the run on every violation, strict-only or not
handleErrorAlwaysFatal(out, err, isStrict) ==
    [exitCode |-> 1, console |-> Append(out.console, Line("error", Severity(isStrict), err))]

\* lines 193-201, on out = [exitCode, console]
handleError(out, err, isStrict) ==
    IF isStrict /\ ~args.strict
    THEN [out EXCEPT !.console = Append(@, Line("warn", Severity(isStrict), err))]
    ELSE [exitCode |-> 1, console |-> Append(out.console, Line("error", Severity(isStrict), err))]

\* a variant whose catch block drops the error
CaughtSilently(out, res, section, item, field) == out

\* the try/catch around a checker: a failed assertion goes to handleError(err);
\* the note of a skipped probe is printed by the checker itself (line 138)
Caught(out, res, section, item, field) ==
    LET noted == IF res.note
                 THEN [out EXCEPT !.console =
                        Append(@, Line("warn", "note", Violation(section, item, field, "Skipping checking of URL", Undefined)))]
                 ELSE out
    IN IF res.err = Pass THEN noted
       ELSE handleError(noted, Violation(section, item, field, res.err, Undefined), FALSE)

Out == [exitCode |-> exitCode, console |-> console]

-----------------------------------------------------------------------------
(* Rule tables, in the order Object.entries walks them *)

REQUIRED_RSS_ATTRS == <<
    [key |-> "@_version", value |-> <<"2",".","0">>],
    [key |-> "@_xmlns:content", value |-> <<"h","t","t","p",":","/","/","p","u","r","l",".","o","r","g","/","r","s","s","/","1",".","0","/","m","o","d","u","l","e","s","/","c","o","n","t","e","n","t","/">>],
    [key |-> "@_xmlns:googleplay", value |-> <<"h","t","t","p",":","/","/","w","w","w",".","g","o","o","g","l","e",".","c","o","m","/","s","c","h","e","m","a","s","/","p","l","a","y","-","p","o","d","c","a","s","t","s","/","1",".","0">>],
    [key |-> "@_xmlns:itunes", value |-> <<"h","t","t","p",":","/","/","w","w","w",".","i","t","u","n","e","s",".","c","o","m","/","d","t","d","s","/","p","o","d","c","a","s","t","-","1",".","0",".","d","t","d">>] >>

REQUIRED_CHANNEL_ATTRS == <<
    Rule("title", <<"title">>, "checkDefaultString"),
    Rule("description", <<"description">>, "checkDescriptionString"),
    ImageRule("itunes:image.@_href", <<"itunes:image", "@_href">>),
    Rule("language", <<"language">>, "checkLanguage"),
    Rule("itunes:explicit", <<"itunes:explicit">>, "checkBool"),
    Rule("atom:link.@_href", <<"atom:link", "@_href">>, "checkUrlExists") >>

OPTIONAL_CHANNEL_ATTRS == <<
    Rule("content:encoded", <<"content:encoded">>, "checkCDATAString"),
    Rule("itunes:summary", <<"itunes:summary">>, "checkDescriptionString"),
    Rule("itunes:author", <<"itunes:author">>, "checkDefaultString"),
    Rule("link", <<"link">>, "checkUrlExists"),
    Rule("itunes:owner.itunes:name", <<"itunes:owner", "itunes:name">>, "checkDefaultString"),
    Rule("itunes:owner.itunes:email", <<"itunes:owner", "itunes:email">>, "checkEmail"),
    Rule("lastBuildDate", <<"lastBuildDate">>, "checkDate"),
    Rule("itunes:title", <<"itunes:title">>, "checkDefaultString"),
    Rule("itunes:type", <<"itunes:type">>, "checkItunesType"),
    Rule("copyright", <<"copyright">>, "checkDefaultString"),
    Rule("itunes:new-feed-url", <<"itunes:new-feed-url">>, "checkUrlExists"),
    Rule("itunes:block", <<"itunes:block">>, "checkDefaultString"),
    Rule("itunes:complete", <<"itunes:complete">>, "checkDefaultString") >>

CHANNEL_STRUCTURAL_TAGS == {"itunes:image", "image", "itunes:category", "itunes:owner", "atom:link", "item"}

\* line 321
itunesType == Get(channel, <<"itunes:type">>, Str(<<>>))

EpisodeRule == Rule("itunes:episode", <<"itunes:episode">>, "checkNatural")

\* a variant that requires the episode number of every show type
EpisodeAlwaysRequired(type) == <<
    Rule("title", <<"title">>, "checkDefaultString"),
    AudioRule("enclosure.@_url", <<"enclosure", "@_url">>),
    Rule("enclosure.@_length", <<"enclosure", "@_length">>, "checkNumberString"),
    Rule("enclosure.@_type", <<"enclosure", "@_type">>, "checkAudioType"),
    EpisodeRule >>

\* lines 323-329: the spread adds 'itunes:episode' for a serial show only
REQUIRED_EPISODE_ATTRS(type) == <<
    Rule("title", <<"title">>, "checkDefaultString"),
    AudioRule("enclosure.@_url", <<"enclosure", "@_url">>),
    Rule("enclosure.@_length", <<"enclosure", "@_length">>, "checkNumberString"),
    Rule("enclosure.@_type", <<"enclosure", "@_type">>, "checkAudioType") >>
    \o (IF type = Str(<<"s","e","r","i","a","l">>) THEN <<EpisodeRule>> ELSE <<>>)

\* lines 331-350
OPTIONAL_EPISODE_ATTRS(type) == <<
    Rule("itunes:title", <<"itunes:title">>, "checkDefaultString"),
    Rule("itunes:author", <<"itunes:author">>, "checkDefaultString"),
    Rule("itunes:summary", <<"itunes:summary">>, "checkDefaultString"),
    Rule("itunes:subtitle", <<"itunes:subtitle">>, "checkDefaultString"),
    Rule("itunes:episodeType", <<"itunes:episodeType">>, "checkEpisodeType"),
    Rule("content:encoded", <<"content:encoded">>, "checkCDATAString"),
    Rule("category", <<"category">>, "checkDefaultString"),
    Rule("guid.#text", <<"guid", "#text">>, "checkDefaultString"),
    Rule("guid.@_isPermaLink", <<"guid", "@_isPermaLink">>, "checkBool"),
    Rule("pubDate", <<"pubDate">>, "checkDate"),
    Rule("description", <<"description">>, "checkDescriptionString"),
    Rule("itunes:duration", <<"itunes:duration">>, "checkNatural"),
    Rule("link", <<"link">>, "checkUrlFormat"),
    ImageRule("itunes:image.@_href", <<"itunes:image", "@_href">>),
    Rule("itunes:explicit", <<"itunes:explicit">>, "checkBool") >>
    \o (IF type # Str(<<"s","e","r","i","a","l">>) THEN <<EpisodeRule>> ELSE <<>>)
    \o << Rule("itunes:order", <<"itunes:order">>, "checkNatural"),
          Rule("itunes:season", <<"itunes:season">>, "checkNatural") >>

EPISODE_STRUCTURAL_TAGS == {"enclosure", "guid"}

\* Object.keys(table)
FieldNames(table) == {table[i].field : i \in 1..Len(table)}

\* _.without(array, ...values), as a set
Without(array, values) == array \ values

\* lines 309-313: the item list, a lone item wrapped in an array
Items ==
    LET found == Get(channel, <<"item">>, Arr(<<>>))
    IN IF Truthy(found) /\ found.t # "array" THEN Arr(<<found>>) ELSE found

\* items.length
Length(v) ==
    CASE v.t = "array" -> Num(Len(v.a))
      [] v.t = "string" -> Num(Len(v.s))
      [] OTHER -> Undefined

\* line 356: for...of takes an array or a string; anything else throws a TypeError
Iterable(v) == v.t \in {"array", "string"}

\* the items the for...of loop of line 356 visits; the only string that reaches the
\* loop unwrapped is the empty one
ItemCount == IF Items.t = "array" THEN Len(Items.a) ELSE 0
Item(i) == Items.a[i]

-----------------------------------------------------------------------------
(* The run: main() and the three section checks, one step per field *)

At(fn, phase, item, idx) == [fn |-> fn, phase |-> phase, item |-> item, idx |-> idx]

Emit(out) ==
    /\ exitCode' = out.exitCode
    /\ console' = out.console

Probed(res, value) == probes' = IF res.probe THEN Append(probes, value.s) ELSE probes

\* where the item loop goes after item i
AfterItem(i) ==
    IF i < ItemCount THEN At("checkEpisodes", "duplicates", i + 1, 0) ELSE At("main", "exit", 0, 0)

\* lines 221-227, one attribute
RssAttr ==
    /\ pc.fn = "checkRSSFormat"
    /\ LET attr == REQUIRED_RSS_ATTRS[pc.idx]
           found == Get(feed, <<"rss", attr.key>>, Str(<<>>))
       IN Emit(IF LooseEquals(found, Str(attr.value)) THEN Out
               ELSE handleError(Out, Violation("rss", 0, attr.key, "should be set to", Undefined), FALSE))
    /\ pc' = IF pc.idx < Len(REQUIRED_RSS_ATTRS)
             THEN At("checkRSSFormat", "attrs", 0, pc.idx + 1)
             ELSE At("checkChannel", "required", 0, 1)
    /\ UNCHANGED <<args, env, net, feed, probes, guids, episodes, status, call, ret>>

\* lines 242-248, one required field
ChannelRequired ==
    /\ pc.fn = "checkChannel" /\ pc.phase = "required"
    /\ \E rule \in {REQUIRED_CHANNEL_ATTRS[pc.idx]} :
       \E value \in {Get(channel, rule.path, Null)} :
       \E res \in {Validate(rule, value, env)} :
       \E out \in {Caught(Out, res, "channel", 0, rule.field)} :
            /\ Emit(out)
            /\ Probed(res, value)
    /\ pc' = IF pc.idx < Len(REQUIRED_CHANNEL_ATTRS)
             THEN At("checkChannel", "required", 0, pc.idx + 1)
             ELSE At("checkChannel", "category", 0, 0)
    /\ UNCHANGED <<args, env, net, feed, guids, episodes, status, call, ret>>

\* lines 250-256
ChannelCategory ==
    /\ pc.fn = "checkChannel" /\ pc.phase = "category"
    /\ LET category == Get(channel, <<"itunes:category", "@_text">>, Str(<<>>))
           subcategory == Get(channel, <<"itunes:category", "itunes:category", "@_text">>, Null)
       IN Emit(Caught(Out, Sync(checkItunesCategory(category, subcategory)), "channel", 0, "itunes:category"))
    /\ pc' = At("checkChannel", "optional", 0, 1)
    /\ UNCHANGED <<args, env, net, feed, probes, guids, episodes, status, call, ret>>

\* lines 274-284, one optional field
ChannelOptional ==
    /\ pc.fn = "checkChannel" /\ pc.phase = "optional"
    /\ \E rule \in {OPTIONAL_CHANNEL_ATTRS[pc.idx]} :
       \E value \in {Get(channel, rule.path, Null)} :
       \E res \in {Validate(rule, value, env)} :
       \E out \in {Caught(Out, res, "channel", 0, rule.field)} :
            IF Get(channel, rule.path, Undefined) = Undefined
            THEN UNCHANGED <<exitCode, console, probes>>
            ELSE /\ Emit(out)
                 /\ Probed(res, value)
    /\ pc' = IF pc.idx < Len(OPTIONAL_CHANNEL_ATTRS)
             THEN At("checkChannel", "optional", 0, pc.idx + 1)
             ELSE At("checkChannel", "tags", 0, 0)
    /\ UNCHANGED <<args, env, net, feed, guids, episodes, status, call, ret>>

\* lines 286-300
additionalChannelTags ==
    Without(Keys(channel),
            CHANNEL_STRUCTURAL_TAGS \cup FieldNames(REQUIRED_CHANNEL_ATTRS) \cup FieldNames(OPTIONAL_CHANNEL_ATTRS))

\* lines 302-304
ChannelTags ==
    /\ pc.fn = "checkChannel" /\ pc.phase = "tags"
    /\ Emit(IF Cardinality(additionalChannelTags) > 0
            THEN handleError(Out, Violation("channel", 0, "", "Channel has additional tags", additionalChannelTags), TRUE)
            ELSE Out)
    /\ pc' = At("checkEpisodes", "count", 0, 0)
    /\ UNCHANGED <<args, env, net, feed, probes, guids, episodes, status, call, ret>>

\* lines 315-319 and the entry into the loop of line 356
EpisodeCount ==
    /\ pc.fn = "checkEpisodes" /\ pc.phase = "count"
    /\ Emit(Caught(Out, Sync(checkNatural(Length(Items))), "channel", 0, "Episode count"))
    \* the TypeError of line 356 is thrown outside every try block: the promise of
    \* main() rejects and line 404 is not reached
    /\ pc' = IF Iterable(Items) THEN AfterItem(0) ELSE At("rejected", "", 0, 0)
    /\ UNCHANGED <<args, env, net, feed, probes, guids, episodes, status, call, ret>>

\* lines 357-372, for one item
ItemDuplicates ==
    /\ pc.fn = "checkEpisodes" /\ pc.phase = "duplicates"
    /\ \E item \in {Item(pc.item)} :
       \E guid \in {Get(item, <<"guid", "#text">>, Str(<<>>))} :
       \E episode \in {Get(item, <<"itunes:episode">>, Str(<<>>))} :
       \E out1 \in {IF Truthy(guid) /\ guid \in guids
                     THEN handleError(Out, Violation("item", pc.item, "", "Duplicate guid", guid), FALSE)
                     ELSE Out} :
       \E out2 \in {IF Truthy(episode) /\ episode \in episodes
                     THEN handleError(out1, Violation("item", pc.item, "", "Duplicate episode", episode), FALSE)
                     ELSE out1} :
          /\ Emit(out2)
          /\ guids' = IF Truthy(guid) THEN guids \cup {guid} ELSE guids
          /\ episodes' = IF Truthy(episode) THEN episodes \cup {episode} ELSE episodes
    /\ pc' = At("checkEpisodes", "required", pc.item, 1)
    /\ UNCHANGED <<args, env, net, feed, probes, status, call, ret>>

\* lines 374-380, one required field of one item
ItemRequired ==
    /\ pc.fn = "checkEpisodes" /\ pc.phase = "required"
    /\ \E rule \in {REQUIRED_EPISODE_ATTRS(itunesType)[pc.idx]} :
       \E value \in {Get(Item(pc.item), rule.path, Null)} :
       \E res \in {Validate(rule, value, env)} :
       \E out \in {Caught(Out, res, "item", pc.item, rule.field)} :
            /\ Emit(out)
            /\ Probed(res, value)
    /\ pc' = IF pc.idx < Len(REQUIRED_EPISODE_ATTRS(itunesType))
             THEN At("checkEpisodes", "required", pc.item, pc.idx + 1)
             ELSE At("checkEpisodes", "tags", pc.item, 0)
    /\ UNCHANGED <<args, env, net, feed, guids, episodes, status, call, ret>>

\* lines 382-392
additionalTags(item) ==
    Without(Keys(item),
            EPISODE_STRUCTURAL_TAGS \cup FieldNames(REQUIRED_EPISODE_ATTRS(itunesType))
                \cup FieldNames(OPTIONAL_EPISODE_ATTRS(itunesType)))

\* lines 394-396
ItemTags ==
    /\ pc.fn = "checkEpisodes" /\ pc.phase = "tags"
    /\ Emit(IF Cardinality(additionalTags(Item(pc.item))) > 0
            THEN handleError(Out, Violation("item", pc.item, "", "Has additional tags", additionalTags(Item(pc.item))), TRUE)
            ELSE Out)
    /\ pc' = AfterItem(pc.item)
    /\ UNCHANGED <<args, env, net, feed, probes, guids, episodes, status, call, ret>>

\* line 404
Exit ==
    /\ pc.fn = "main" /\ pc.phase = "exit"
    /\ status' = exitCode
    /\ pc' = At("exited", "", 0, 0)
    /\ UNCHANGED <<args, env, net, feed, exitCode, console, probes, guids, episodes, call, ret>>

-----------------------------------------------------------------------------
(* The documents, arguments and environments the run is checked on *)

MaxItems == 3

\* the tree with the given value at each path
RECURSIVE Tree(_)
Tree(assign) ==
    Obj([k \in {p[1] : p \in DOMAIN assign} |->
            IF <<k>> \in DOMAIN assign THEN assign[<<k>>]
            ELSE Tree([q \in {Tail(p) : p \in {r \in DOMAIN assign : r[1] = k}} |-> assign[<<k>> \o q]])])

NoFields == [p \in {} |-> Undefined]
Drop(assign, path) == [p \in DOMAIN assign \ {path} |-> assign[p]]
\* value Undefined stands for a field left out
With(assign, path, value) == IF value = Undefined THEN Drop(assign, path) ELSE (path :> value) @@ assign

IMAGE_URL == <<"h","t","t","p","s",":","/","/","x","/","a",".","p","n","g">>
AUDIO_URL == <<"h","t","t","p","s",":","/","/","x","/","a",".","m","p","3">>
PAGE_URL == <<"h","t","t","p","s",":","/","/","x","/">>
OTHER_URL == <<"h","t","t","p","s",":","/","/","y","/","a",".","p","n","g">>
Urls == {IMAGE_URL, AUDIO_URL, PAGE_URL, OTHER_URL}

\* a value each checker accepts, or is meant to accept
GoodValue(rule) ==
    CASE rule.fn = "checkDefaultString" -> Str(<<"T","a","l","k">>)
      [] rule.fn = "checkDescriptionString" -> Str(<<"A","b","o","u","t">>)
      [] rule.fn = "checkCDATAString" -> Str(<<"<","!","[","C","D","A","T","A","[","h","i","]","]",">">>)
      [] rule.fn = "checkNatural" -> Num(7)
      [] rule.fn = "checkNumberString" -> Str(<<"1","0","2","4">>)
      [] rule.fn = "checkDate" -> Str(<<"M","o","n",","," ","0","2"," ","J","a","n"," ","2","0","2","3"," ","1","5",":","0","4",":","0","5"," ","+","0","0","0","0">>)
      [] rule.fn = "checkLanguage" -> Str(<<"e","n","-","U","S">>)
      [] rule.fn = "checkBool" -> Bool(FALSE)
      [] rule.fn = "checkEmail" -> Str(<<"a","@","b",".","i","o">>)
      [] rule.fn = "checkItunesType" -> Str(<<"e","p","i","s","o","d","i","c">>)
      [] rule.fn = "checkEpisodeType" -> Str(<<"f","u","l","l">>)
      [] rule.fn = "checkAudioType" -> Str(<<"a","u","d","i","o","/","m","p","e","g">>)
      [] rule.fn = "checkUrlFormat" -> Str(IF rule.ext = {} THEN PAGE_URL ELSE AUDIO_URL)
      [] rule.fn = "checkUrlExists" -> Str(IF rule.ext = {} THEN PAGE_URL ELSE IMAGE_URL)

\* values each checker is to reject
BadValues(rule) ==
    CASE rule.fn = "checkDefaultString" -> {Str(<<" ","x">>), Str(<<"x"," ">>), Str(<<>>), Num(5)}
      [] rule.fn = "checkDescriptionString" -> {Str(<<" ","x">>), Str(<<>>), Bool(TRUE)}
      [] rule.fn = "checkCDATAString" -> {Str(<<"h","e","l","l","o">>), Str(<<"<","!","[","C","D","A","T","A","[","a","]","]",">","b","]","]",">">>), Num(5)}
      [] rule.fn = "checkNatural" -> {Num(0), Num(-1), Str(<<"7">>)}
      [] rule.fn = "checkNumberString" -> {Str(<<"a","b","c">>), Str(<<"-","5">>), Num(1024)}
      [] rule.fn = "checkDate" -> {Str(<<"2","0","2","3","-","0","1","-","0","2","T","1","5",":","0","4",":","0","5","Z">>), Str(<<"M","o","n",","," ","2"," ","J","a","n"," ","2","0","2","3"," ","1","5",":","0","4",":","0","5"," ","+","0","0","0","0">>)}
      [] rule.fn = "checkLanguage" -> {Str(<<"e","n","g","l","i","s","h">>), Str(<<"x","x">>), Str(<<"e","n","_","U","S">>)}
      [] rule.fn = "checkBool" -> {Str(<<"f","a","l","s","e">>), Num(0)}
      [] rule.fn = "checkEmail" -> {Str(<<"n","o","b","o","d","y">>), Str(<<"a","@","b">>), Num(5)}
      [] rule.fn = "checkItunesType" -> {Str(<<"w","e","e","k","l","y">>), Bool(TRUE)}
      [] rule.fn = "checkEpisodeType" -> {Str(<<"t","e","a","s","e","r">>), Num(1)}
      [] rule.fn = "checkAudioType" -> {Str(<<"a","u","d","i","o","/","w","a","v">>), Num(1)}
      [] rule.fn = "checkUrlFormat" -> {Str(<<"h","t","t","p",":","/","/","x","/","a",".","m","p","3">>), Str(<<"h","t","t","p","s",":","/","/","x","/","a",".","w","a","v">>), Str(<<>>)}
      [] rule.fn = "checkUrlExists" -> {Str(<<"h","t","t","p",":","/","/","x","/","a",".","p","n","g">>), Str(<<"h","t","t","p","s",":","/","/","x","/","a",".","g","i","f">>), Num(5)}

BadValue(rule) == CHOOSE v \in BadValues(rule) : v.t = "string" /\ v.s # <<>>

\* the value of a field in a document filled the same way throughout:
\* "full" every field good, "minimal" the required fields good and no other,
\* "invalid" every field bad, "absent" no field at all
Fill(rule, required, bg) ==
    CASE bg = "full" -> GoodValue(rule)
      [] bg = "minimal" -> IF required THEN GoodValue(rule) ELSE Undefined
      [] bg = "invalid" -> BadValue(rule)
      [] bg = "absent" -> Undefined

Backgrounds == {"full", "minimal", "invalid", "absent"}

RECURSIVE FillTable(_, _, _, _)
FillTable(assign, table, required, bg) ==
    IF table = <<>> THEN assign
    ELSE FillTable(With(assign, Head(table).path, Fill(Head(table), required, bg)), Tail(table), required, bg)

\* the rss attributes
RssFields(bg) ==
    IF bg = "absent" THEN NoFields
    ELSE [p \in {<<REQUIRED_RSS_ATTRS[i].key>> : i \in 1..Len(REQUIRED_RSS_ATTRS)} |->
            IF bg = "invalid" THEN Str(<<"1",".","0">>)
            ELSE Str(REQUIRED_RSS_ATTRS[CHOOSE i \in 1..Len(REQUIRED_RSS_ATTRS) : REQUIRED_RSS_ATTRS[i].key = p[1]].value)]

CategoryFields(bg) ==
    CASE bg = "full" -> (<<"itunes:category", "@_text">> :> Str(<<"A","r","t","s">>))
                        @@ (<<"itunes:category", "itunes:category", "@_text">> :> Str(<<"B","o","o","k","s">>))
      [] bg = "minimal" -> (<<"itunes:category", "@_text">> :> Str(<<"C","o","m","e","d","y">>))
      [] bg = "invalid" -> (<<"itunes:category", "@_text">> :> Str(<<"N","o","p","e">>))
      [] bg = "absent" -> NoFields

ChannelFields(bg) ==
    FillTable(FillTable(CategoryFields(bg), REQUIRED_CHANNEL_ATTRS, TRUE, bg), OPTIONAL_CHANNEL_ATTRS, FALSE, bg)

\* item i; in a full document every item has a guid and an episode number of its own
ItemFields(bg, i) ==
    LET filled == FillTable(FillTable(NoFields, REQUIRED_EPISODE_ATTRS(Str(<<"e","p","i","s","o","d","i","c">>)), TRUE, bg),
                            OPTIONAL_EPISODE_ATTRS(Str(<<"e","p","i","s","o","d","i","c">>)), FALSE, bg)
    IN IF bg = "full"
       THEN With(With(filled, <<"guid", "#text">>, Str([j \in 1..i |-> "g"])), <<"itunes:episode">>, Num(i))
       ELSE filled

\* channel.item as the parser leaves it: nothing, a lone item, or an array
ItemValue(items) ==
    IF Len(items) = 0 THEN Undefined
    ELSE IF Len(items) = 1 THEN Tree(items[1])
    ELSE Arr([i \in 1..Len(items) |-> Tree(items[i])])

FeedOf(rssFields, channelFields, item) ==
    Tree(<<"rss">> :> Tree((<<"channel">> :> Tree(With(channelFields, <<"item">>, item))) @@ rssFields))
Feed(rssFields, channelFields, items) == FeedOf(rssFields, channelFields, ItemValue(items))

NoEnv == [CI |-> Undefined, NODE_ENV |-> Undefined, PUBLIC_URL_BASE |-> Undefined]
Reachable == Response(200, "bytes", "image/png")
Responses == {Reachable, Response(200, "none", "image/png"), Response(200, "bytes", "text/html"),
              Response(204, "bytes", "image/png"), Rejection(Num(404)), Rejection(Undefined)}
Net(r) == [u \in Urls |-> r]

Input(strict, e, n, f) == [args |-> [strict |-> strict], env |-> e, net |-> n, feed |-> f]

FilledItems(bg) == [i \in 1..MaxItems |-> ItemFields(bg, i)]

\* one field of a uniformly filled document set to each value of interest
Values(rule) == {Undefined, GoodValue(rule)} \cup BadValues(rule)
Range(table) == {table[i] : i \in 1..Len(table)}
ChannelRules == Range(REQUIRED_CHANNEL_ATTRS) \cup Range(OPTIONAL_CHANNEL_ATTRS)
EpisodeRules == Range(REQUIRED_EPISODE_ATTRS(Str(<<"s","e","r","i","a","l">>))) \cup Range(OPTIONAL_EPISODE_ATTRS(Str(<<"s","e","r","i","a","l">>)))

RssDocs(bg) ==
    {Feed(With(RssFields(bg), <<REQUIRED_RSS_ATTRS[i].key>>, v), ChannelFields(bg), FilledItems(bg)) :
        i \in 1..Len(REQUIRED_RSS_ATTRS), v \in {Undefined, Str(<<"1",".","0">>), Str(<<"2",".","0">>)}}

ChannelDocs(bg) ==
    UNION {{Feed(RssFields(bg), With(ChannelFields(bg), rule.path, v), FilledItems(bg)) : v \in Values(rule)} :
            rule \in ChannelRules}

CategoryDocs(bg) ==
    {Feed(RssFields(bg),
          With(With(ChannelFields(bg), <<"itunes:category", "@_text">>, c),
               <<"itunes:category", "itunes:category", "@_text">>, s),
          FilledItems(bg)) :
        c \in {Undefined, Str(<<"A","r","t","s">>), Str(<<"N","o","p","e">>), Num(5)},
        s \in {Undefined, Str(<<"B","o","o","k","s">>), Str(<<"N","o","p","e">>), Num(5)}}

ItemDocs(bg) ==
    UNION {{Feed(RssFields(bg), ChannelFields(bg), [FilledItems(bg) EXCEPT ![i] = With(@, rule.path, v)]) :
                v \in Values(rule), i \in 1..MaxItems} :
            rule \in EpisodeRules}

FieldDocs == UNION {RssDocs(bg) \cup ChannelDocs(bg) \cup CategoryDocs(bg) \cup ItemDocs(bg) : bg \in Backgrounds}

\* items that differ in guid, or in episode number under each show type
Sequences(S) == UNION {[1..n -> S] : n \in 0..MaxItems}
GuidDocs ==
    {Feed(RssFields("minimal"), ChannelFields("minimal"),
          [i \in 1..Len(gs) |-> With(ItemFields("minimal", i), <<"guid", "#text">>, gs[i])]) :
        gs \in Sequences({Undefined, Str(<<"a">>), Str(<<"b">>), Num(0)})}
EpisodeDocs ==
    {Feed(RssFields("minimal"), With(ChannelFields("minimal"), <<"itunes:type">>, type),
          [i \in 1..Len(es) |-> With(ItemFields("minimal", i), <<"itunes:episode">>, es[i])]) :
        es \in Sequences({Undefined, Num(1), Num(2), Num(0)}),
        type \in {Undefined, Str(<<"s","e","r","i","a","l">>), Str(<<"e","p","i","s","o","d","i","c">>), Str(<<"w","e","e","k","l","y">>)}}

\* child tags beyond the rule tables
TagDocs ==
    {Feed(RssFields("minimal"),
          [p \in {<<t>> : t \in ct} |-> Str(<<"x">>)] @@ ChannelFields("minimal"),
          <<[p \in {<<t>> : t \in it} |-> Str(<<"x">>)] @@ ItemFields("minimal", 1)>>) :
        ct \in SUBSET {"image", "generator", "docs"},
        it \in SUBSET {"guid", "comments", "itunes:image"}}

\* an item element that holds text only: the parser leaves a number or a string
TextItemDocs ==
    {FeedOf(RssFields("minimal"), ChannelFields("minimal"), v) : v \in {Num(0), Num(5), Str(<<>>)}}

Envs == [CI : {Undefined, Str(<<>>), Str(<<"t","r","u","e">>)},
         NODE_ENV : {Undefined, Str(<<"t","e","s","t">>), Str(<<"p","r","o","d","u","c","t","i","o","n">>)},
         PUBLIC_URL_BASE : {Undefined, Str(<<>>), Str(<<"h","t","t","p","s",":","/","/","x">>), Str(IMAGE_URL)}]

Inputs ==
    {Input(strict, NoEnv, Net(Reachable), f) :
        strict \in BOOLEAN, f \in FieldDocs \cup GuidDocs \cup EpisodeDocs \cup TagDocs \cup TextItemDocs}
    \cup {Input(FALSE, e, Net(r), Feed(RssFields(bg), ChannelFields(bg), <<ItemFields(bg, 1)>>)) :
            e \in Envs, r \in Responses, bg \in {"full", "minimal"}}

IdleCall == [rule |-> Rule("", <<>>, ""), value |-> Undefined]
IdleRet == [done |-> FALSE]

Init ==
    /\ \E in \in Inputs :
        /\ args = in.args
        /\ env = in.env
        /\ net = in.net
        /\ feed = in.feed
    /\ pc = At("checkRSSFormat", "attrs", 0, 1)
    /\ exitCode = 0
    /\ console = <<>>
    /\ probes = <<>>
    /\ guids = {}
    /\ episodes = {}
    /\ status = NoStatus
    /\ call = IdleCall
    /\ ret = IdleRet

Next ==
    \/ RssAttr
    \/ ChannelRequired
    \/ ChannelCategory
    \/ ChannelOptional
    \/ ChannelTags
    \/ EpisodeCount
    \/ ItemDuplicates
    \/ ItemRequired
    \/ ItemTags
    \/ Exit

Spec == Init /\ [][Next]_vars

\* the uniformly filled documents, under each answer of the network
FilledInputs ==
    {Input(strict, NoEnv, Net(r), Feed(RssFields(bg), ChannelFields(bg), FilledItems(bg))) :
        strict \in BOOLEAN, r \in Responses, bg \in Backgrounds}
    \cup {Input(strict, NoEnv, Net(Reachable), f) : strict \in BOOLEAN, f \in TagDocs \cup TextItemDocs}

FairInit ==
    /\ \E in \in FilledInputs :
        /\ args = in.args
        /\ env = in.env
        /\ net = in.net
        /\ feed = in.feed
    /\ pc = At("checkRSSFormat", "attrs", 0, 1)
    /\ exitCode = 0
    /\ console = <<>>
    /\ probes = <<>>
    /\ guids = {}
    /\ episodes = {}
    /\ status = NoStatus
    /\ call = IdleCall
    /\ ret = IdleRet

\* main() runs on: every await resumes once rq.head settles, and nothing else is scheduled
FairSpec == FairInit /\ [][Next]_vars /\ WF_vars(Next)

-----------------------------------------------------------------------------
(* A checker applied on its own to one value, under one environment *)

LongString(n) == Str([i \in 1..n |-> "a"])

CheckerRules == ChannelRules \cup EpisodeRules

CheckerValues ==
    {Null, LongString(MaxDefaultLen), LongString(MaxDefaultLen + 1),
     LongString(MaxDescriptionLen), LongString(MaxDescriptionLen + 1),
     Str(<<"<","!","[","C","D","A","T","A","[","h","e","l","l","o","]","]",">">>), Str(<<"<","!","[","C","D","A","T","A","[","]","]",">">>), Str(<<"<","!","[","C","D","A","T","A","[","]","]",">","]","]",">">>), Str(<<"]","]",">">>),
     Str(<<"<","!","[","C","D","A","T","A","[","a","]","]",">","b","]","]",">">>), Str(<<"h","e","l","l","o">>), Str(<<"<","!","[","C","D","A","T","A","["," ","h","e","l","l","o"," ","]","]",">">>),
     Str(OTHER_URL)}
    \cup UNION {Values(rule) \ {Undefined} : rule \in CheckerRules}

Calls ==
    {[args |-> [strict |-> FALSE], env |-> NoEnv, net |-> Net(Reachable), call |-> [rule |-> rule, value |-> v]] :
        rule \in CheckerRules, v \in CheckerValues}
    \cup {[args |-> [strict |-> FALSE], env |-> e, net |-> Net(r), call |-> [rule |-> rule, value |-> v]] :
            rule \in {REQUIRED_CHANNEL_ATTRS[3], REQUIRED_CHANNEL_ATTRS[6]}, e \in Envs, r \in Responses,
            v \in {Null, Str(IMAGE_URL), Str(PAGE_URL), Str(OTHER_URL), Str(<<"h","t","t","p",":","/","/","x","/","a",".","p","n","g">>), Str(<<"h","t","t","p","s",":","/","/","x","/","a",".","g","i","f">>)}}

CheckerInit ==
    /\ \E in \in Calls :
        /\ args = in.args
        /\ env = in.env
        /\ net = in.net
        /\ call = in.call
    /\ feed = EmptyObject
    /\ pc = At("checker", "", 0, 0)
    /\ exitCode = 0
    /\ console = <<>>
    /\ probes = <<>>
    /\ guids = {}
    /\ episodes = {}
    /\ status = NoStatus
    /\ ret = IdleRet

\* validate(value, fieldName), to its outcome
Apply ==
    /\ pc.fn = "checker"
    /\ ~ret.done
    /\ LET res == Validate(call.rule, call.value, env)
       IN /\ ret' = [done |-> TRUE, err |-> res.err, note |-> res.note, probe |-> res.probe]
          /\ Probed(res, call.value)
    /\ UNCHANGED <<args, env, net, feed, pc, exitCode, console, guids, episodes, status, call>>

CheckerSpec == CheckerInit /\ [][Apply]_vars

-----------------------------------------------------------------------------
(* Properties *)

Exited == pc.fn = "exited"
Absent(node, path) == Get(node, path, Undefined) = Undefined
Present(node, path) == ~Absent(node, path)

\* the violations printed, by severity
Violations(kind) == {i \in 1..Len(console) : console[i].kind = kind}
Recorded == Violations("always-fatal") \cup Violations("strict-only")
\* the violations printed for one field of one section (item 0: the rss element or the channel)
For(section, item, field) ==
    {i \in Recorded : console[i].err.section = section /\ console[i].err.item = item
                      /\ console[i].err.field = field}
\* the violations of one item, or of the channel, with the given message
Saying(section, item, msg) ==
    {i \in Recorded : console[i].err.section = section /\ console[i].err.item = item
                      /\ console[i].err.msg = msg}
OneFatal(lines) == Cardinality(lines) = 1 /\ lines \subseteq Violations("always-fatal")

\* C1: the exit code process.exit reports is 1 exactly when an always-fatal violation
\* was recorded, or strict mode is on and a strict-only violation was recorded; it is
\* 0 otherwise.
C1_ExitSignal ==
    status # NoStatus =>
        status = IF Violations("always-fatal") # {} \/ (args.strict /\ Violations("strict-only") # {})
                 THEN 1 ELSE 0

\* a finished run, strict mode off, whose only issues are unexpected tags
C1_OnlyExtraTagsExitZero ==
    /\ Exited /\ status = 0
    /\ ~args.strict
    /\ Violations("strict-only") # {}
    /\ Violations("always-fatal") = {}

C3_OptionalAbsentNonePresentInvalidOne ==
    Exited =>
        /\ \A rule \in Range(OPTIONAL_CHANNEL_ATTRS) :
            /\ Absent(channel, rule.path) => For("channel", 0, rule.field) = {}
            /\ Present(channel, rule.path) /\ Validate(rule, Get(channel, rule.path, Null), env).err # Pass
                    => OneFatal(For("channel", 0, rule.field))
        /\ \A n \in 1..ItemCount : \A rule \in Range(OPTIONAL_EPISODE_ATTRS(itunesType)) :
            /\ Absent(Item(n), rule.path) => For("item", n, rule.field) = {}
            /\ Present(Item(n), rule.path) /\ Validate(rule, Get(Item(n), rule.path, Null), env).err # Pass
                    => OneFatal(For("item", n, rule.field))

\* C4 as claimed: at the end of the run, an item has one duplicate-guid violation,
\* always fatal, when an earlier item carries the same guid value and none otherwise;
\* likewise for the episode index.
Earlier(n, path) ==
    {m \in 1..(n - 1) : Present(Item(m), path) /\ Get(Item(m), path, Undefined) = Get(Item(n), path, Undefined)}
DuplicatesAsClaimed(n, path, msg) ==
    IF Present(Item(n), path) /\ Earlier(n, path) # {}
    THEN OneFatal(Saying("item", n, msg))
    ELSE Saying("item", n, msg) = {}
C4_DuplicatesAfterFirst ==
    Exited =>
        \A n \in 1..ItemCount :
            /\ DuplicatesAsClaimed(n, <<"guid", "#text">>, "Duplicate guid")
            /\ DuplicatesAsClaimed(n, <<"itunes:episode">>, "Duplicate episode")

\* the place of a step in the run over this document: the rss attributes, the channel's
\* required fields, its category, its optional fields, its tags, the item count, then
\* per item the duplicates, the required fields and the tags, then the exit
PerItem == Len(REQUIRED_EPISODE_ATTRS(itunesType)) + 2
ChannelSteps == Len(REQUIRED_CHANNEL_ATTRS) + 1 + Len(OPTIONAL_CHANNEL_ATTRS) + 1
Ordinal(p) ==
    CASE p.fn = "checkRSSFormat" -> p.idx
      [] p.fn = "checkChannel" ->
            Len(REQUIRED_RSS_ATTRS)
            + (CASE p.phase = "required" -> p.idx
                 [] p.phase = "category" -> Len(REQUIRED_CHANNEL_ATTRS) + 1
                 [] p.phase = "optional" -> Len(REQUIRED_CHANNEL_ATTRS) + 1 + p.idx
                 [] p.phase = "tags" -> ChannelSteps)
      [] p.fn = "checkEpisodes" ->
            Len(REQUIRED_RSS_ATTRS) + ChannelSteps + 1
            + (CASE p.phase = "count" -> 0
                 [] p.phase = "duplicates" -> (p.item - 1) * PerItem + 1
                 [] p.phase = "required" -> (p.item - 1) * PerItem + 1 + p.idx
                 [] p.phase = "tags" -> p.item * PerItem)
      [] p.fn = "main" -> Len(REQUIRED_RSS_ATTRS) + ChannelSteps + 1 + ItemCount * PerItem + 1
      [] p.fn = "exited" -> Len(REQUIRED_RSS_ATTRS) + ChannelSteps + 1 + ItemCount * PerItem + 2
      \* the rejection takes the place of the first step of the loop
      [] p.fn = "rejected" -> Len(REQUIRED_RSS_ATTRS) + ChannelSteps + 2

\* C5 as claimed: every step goes on to the very next check of the document, whatever
\* has been recorded: the rss attributes, then the channel, then every item, and only
\* then the exit code is reported; and the run always gets there.
C5_AllSectionsThenExit ==
    /\ [][Ordinal(pc') = Ordinal(pc) + 1]_vars
    /\ [][status' # NoStatus => pc'.fn = "exited"]_vars
    /\ <>Exited

\* the child tag names of a node that neither the structural tags nor the first
\* segments of the rule tables' field paths account for
TopSegments(table) == {table[i].path[1] : i \in 1..Len(table)}
Unexplained(node, structural, required, optional) ==
    Keys(node) \ (structural \cup TopSegments(required) \cup TopSegments(optional))
TagViolations(section, n) ==
    Saying(section, n, "Channel has additional tags") \cup Saying(section, n, "Has additional tags")
TagsAsClaimed(section, n, unexplained) ==
    IF unexplained = {} THEN TagViolations(section, n) = {}
    ELSE /\ Cardinality(TagViolations(section, n)) = 1
         /\ TagViolations(section, n) \subseteq Violations("strict-only")
         /\ \A i \in TagViolations(section, n) : console[i].err.detail = unexplained

\* C6 as claimed: at the end of the run, the channel and each item have an unexpected-tag
\* violation exactly when a child tag name is outside the section's structural tags and
\* the first segments of its rule tables' field paths; it is strict-only, there is one
\* at most, and it lists exactly those names.
C6_UnexpectedTagsByTopSegment ==
    Exited =>
        /\ TagsAsClaimed("channel", 0,
                Unexplained(channel, CHANNEL_STRUCTURAL_TAGS, REQUIRED_CHANNEL_ATTRS, OPTIONAL_CHANNEL_ATTRS))
        /\ \A n \in 1..ItemCount :
                TagsAsClaimed("item", n,
                    Unexplained(Item(n), EPISODE_STRUCTURAL_TAGS,
                                REQUIRED_EPISODE_ATTRS(itunesType), OPTIONAL_EPISODE_ATTRS(itunesType)))

\* a checker applied on its own has returned
Returned(fns) == ret.done /\ call.rule.fn \in fns

\* a string that starts with the marker, ends with ']]>' and has no ']]>' in between
WellFormedCDATA(v) ==
    /\ v.t = "string"
    /\ Len(v.s) >= Len(CDATA_OPEN) + Len(CDATA_CLOSE)
    /\ StartsWith(v.s, CDATA_OPEN)
    /\ EndsWith(v.s, CDATA_CLOSE)
    /\ IndexOf(SubSeq(v.s, Len(CDATA_OPEN) + 1, Len(v.s) - Len(CDATA_CLOSE)), CDATA_CLOSE) = -1

\* C7 as claimed: the CDATA checker passes a value exactly when it is a string that
\* starts with '<![CDATA[', ends with ']]>' and has no ']]>' in between.
C7_CDATAPassesWellFormed ==
    Returned({"checkCDATAString"}) => (ret.err = Pass <=> WellFormedCDATA(call.value))

WellShaped(v, max) ==
    /\ v.t = "string"
    /\ Len(v.s) > 0
    /\ v.s[1] # " "
    /\ v.s[Len(v.s)] # " "
    /\ Len(v.s) <= max

\* C9 as claimed: the default-string checker passes a value exactly when it is a string
\* without leading or trailing space, not empty, of at most 255 characters; the
\* description-string checker likewise, with 4000.
C9_StringLengthBounds ==
    /\ Returned({"checkDefaultString"}) => (ret.err = Pass <=> WellShaped(call.value, MaxDefaultLen))
    /\ Returned({"checkDescriptionString"}) => (ret.err = Pass <=> WellShaped(call.value, MaxDescriptionLen))

\* the outcome of checkUrlExists: the shape check's error and nothing else when the
\* shape is wrong; a note, no error and no request when `skipped`; a request otherwise
UrlOutcome(skipped) ==
    IF checkUrlFormat(call.value, call.rule.ext) # Pass
    THEN ret.err = checkUrlFormat(call.value, call.rule.ext) /\ ~ret.note /\ ~ret.probe /\ probes = <<>>
    ELSE IF skipped
    THEN ret.note /\ ret.err = Pass /\ ~ret.probe /\ probes = <<>>
    ELSE ~ret.note /\ ret.probe /\ probes = <<call.value.s>>

CIMode == Truthy(env.CI)
TestMode == env.NODE_ENV = Str(<<"t","e","s","t">>)
UnderPublicBase ==
    call.value.t = "string" /\ env.PUBLIC_URL_BASE.t = "string"
        /\ StartsWith(call.value.s, env.PUBLIC_URL_BASE.s)

\* C10: in checkUrlExists the shape check runs first; the request is then skipped, with
\* a note and no violation, exactly when CI is set and either NODE_ENV is 'test' or the
\* URL starts with PUBLIC_URL_BASE; in every other environment the request is made.
C10_SkipInPipeline ==
    Returned({"checkUrlExists"}) => UrlOutcome(CIMode /\ (TestMode \/ UnderPublicBase))

\* C10 as claimed: the request is skipped exactly when CI is set and the URL starts with
\* PUBLIC_URL_BASE.
C10_SkipOnPublicBaseOnly ==
    Returned({"checkUrlExists"}) => UrlOutcome(CIMode /\ UnderPublicBase)

\* a URL outside the public base whose request was skipped in test mode
C10_SkippedInTestMode ==
    /\ Returned({"checkUrlExists"})
    /\ CIMode /\ TestMode /\ ~UnderPublicBase
    /\ ret.note /\ ~ret.probe /\ ret.err = Pass

\* the item elements of the channel as the document has them: none, a lone one, or several
ItemElements ==
    IF Absent(channel, <<"item">>) THEN <<>>
    ELSE IF Get(channel, <<"item">>, Undefined).t = "array" THEN Get(channel, <<"item">>, Undefined).a
    ELSE <<Get(channel, <<"item">>, Undefined)>>

\* the episode count has been checked
Counted == pc.fn \in {"main", "exited", "rejected"} \/ (pc.fn = "checkEpisodes" /\ pc.phase # "count")

\* item n of the document has, for each required field, one always-fatal violation when
\* its checker rejects the value and none when it accepts it
ValidatedAsItem(n) ==
    \A rule \in Range(REQUIRED_EPISODE_ATTRS(itunesType)) :
        IF Validate(rule, Get(ItemElements[n], rule.path, Null), env).err # Pass
        THEN OneFatal(For("item", n, rule.field))
        ELSE For("item", n, rule.field) = {}

\* C11 as claimed: once the episode count is checked there is exactly one item-count
\* violation, always fatal, when the channel has no item element and none when it has
\* one or more; and at the end of the run every item element, a lone one included, has
\* been validated as an item.
C11_LoneItemIsOneItem ==
    /\ Counted =>
            IF Len(ItemElements) = 0
            THEN OneFatal(For("channel", 0, "Episode count"))
            ELSE For("channel", 0, "Episode count") = {}
    /\ Exited => \A n \in 1..Len(ItemElements) : ValidatedAsItem(n)
====
